---- MODULE Spec2Model ----
(***************************************************************************)
(* Sky Jump (src/game.js): the simulation step updatePlayer, the frame     *)
(* loop gameLoop, gameOver, resetGame and the input handlers.              *)
(*                                                                         *)
(* Numbers.  The program computes in JavaScript numbers.  The model keeps  *)
(* them exact as integers in two fixed units:                              *)
(*   vertical quantities (y, velocityY, platform y) in 1/YUnit pixel,      *)
(*     YUnit = 2, because gravity is 0.5 and every other vertical          *)
(*     constant is an integer;                                             *)
(*   horizontal quantities (x, velocityX, platform x) in 1/XUnit pixel,    *)
(*     XUnit = 5^MaxDecay, because the damping factor is 0.8 = 4/5.  A     *)
(*     tick whose damped velocity is not a whole number of units is        *)
(*     outside the bound MaxDecay and is not taken.                        *)
(* Rounding of IEEE doubles is not modelled.                               *)
(***************************************************************************)
EXTENDS Integers, Sequences, FiniteSets, TLC

\* ------------------------------------------------------------------ bounds
MaxDecay == 3
MaxFrames == 84
MaxLongFrames == 1100
MaxLongInputs == 1
MaxInputEvents == 2
SavedScore == 3

\* --------------------------------------------------------- program constants
canvasWidth == 460
canvasHeight == 600
playerWidth == 50
playerHeight == 50
playerStartInset == 25
playerStartLift == 150
gravityNum == 1
gravityDen == 2
jumpStrength == -15
moveSpeed == 7
maxVelocityX == 8
dampingNum == 4
dampingDen == 5
platformWidth == 80
platformHeight == 15
platformGap == 80
platformCount == 10
basePlatformLift == 50
bandFudge == 15
offscreenMargin == 50
jumpScoreUnit == 10
scrollZoneDen == 3

\* units per pixel
YUnit == gravityDen
RECURSIVE Pow(_, _)
Pow(b, n) == IF n = 0 THEN 1 ELSE b * Pow(b, n - 1)
XUnit == Pow(dampingDen, MaxDecay)
PX(n) == n * XUnit
PY(n) == n * YUnit

Max(a, b) == IF a > b THEN a ELSE b
Min(a, b) == IF a < b THEN a ELSE b
Abs(a) == IF a < 0 THEN -a ELSE a

\* Math.random() * (canvas.width - platformWidth): a real in [0, 380); sampled.
RandomXs == {190}

\* JavaScript values held by highScore and by the localStorage item
\* 'skyJumpHighScore': a number, null (the key is absent), the decimal text
\* of an integer, or a text that is not a number.
Number(n) == [kind |-> "number", val |-> n]
NumText(n) == [kind |-> "numeric string", val |-> n]
NoItem == [kind |-> "null", val |-> 0]
Garbage == [kind |-> "other string", val |-> 0]
StoredItems == {NoItem, NumText(SavedScore), Garbage}

\* ToNumber(v) is NaN
IsNaN(v) == v.kind = "other string"

\* a > v for a number a and a number or string v: false when v converts to NaN
GreaterThan(a, v) == ~IsNaN(v) /\ a > v.val

\* localStorage.setItem(key, n) stores String(n)
ToText(n) == NumText(n)

VARIABLES
    player,        \* [x, y, velocityX, velocityY]
    platforms,     \* sequence of [x, y], in array order
    score,
    highScore,     \* a number, or the text read from localStorage (line 16)
    localStorage,  \* the item 'skyJumpHighScore'
    gameRunning,
    keys,          \* [left, right]
    pending,       \* gameLoop callbacks registered with requestAnimationFrame
    uncaught,      \* an uncaught TypeError was raised in updatePlayer
    last,          \* history: the handler that last called updatePlayer, and the state it started from
    frames,        \* animation frames so far (bounded by MaxFrames)
    inputEvents    \* input events so far (bounded by MaxInputEvents)

vars == <<player, platforms, score, highScore, localStorage, gameRunning, keys,
          pending, uncaught, last, frames, inputEvents>>

\* ------------------------------------------------------------- initPlatforms
startPlayer ==
    [x |-> PX(canvasWidth) \div 2 - PX(playerStartInset),
     y |-> PY(canvasHeight - playerStartLift),
     velocityX |-> 0,
     velocityY |-> 0]

basePlatformAtLeftEdge ==
    [x |-> 0, y |-> PY(canvasHeight - basePlatformLift)]
basePlatform ==
    [x |-> PX(canvasWidth) \div 2 - PX(platformWidth) \div 2,
     y |-> PY(canvasHeight - basePlatformLift)]

\* the ladders initPlatforms can build: the base platform, then platformCount - 1
\* platforms at random x, platformGap apart.
RECURSIVE LadderFromTight(_, _)
LadderFromTight(ps, i) ==
    IF i >= platformCount THEN {ps}
    ELSE UNION { LadderFromTight(Append(ps, [x |-> PX(rx),
                                             y |-> PY(canvasHeight - basePlatformLift
                                                      - i * platformHeight)]),
                                 i + 1) : rx \in RandomXs }
RECURSIVE LadderFrom(_, _)
LadderFrom(ps, i) ==
    IF i >= platformCount THEN {ps}
    ELSE UNION { LadderFrom(Append(ps, [x |-> PX(rx),
                                        y |-> PY(canvasHeight - basePlatformLift - i * platformGap)]),
                            i + 1) : rx \in RandomXs }

initPlatforms == LadderFrom(<<basePlatform>>, 1)

\* ------------------------------------------------------------- updatePlayer
\* lines 103-112
HorizontalControlAccelerates(p, k) ==
    LET v1 == IF k.left THEN p.velocityX - PX(moveSpeed)
              ELSE IF k.right THEN p.velocityX + PX(moveSpeed)
              ELSE (p.velocityX * dampingNum) \div dampingDen
    IN [p EXCEPT !.velocityX = v1, !.x = p.x + v1]
HorizontalControl(p, k) ==
    LET v1 == IF k.left THEN -PX(moveSpeed)
              ELSE IF k.right THEN PX(moveSpeed)
              ELSE (p.velocityX * dampingNum) \div dampingDen
        v2 == Max(-PX(maxVelocityX), Min(PX(maxVelocityX), v1))
    IN [p EXCEPT !.velocityX = v2, !.x = p.x + v2]

\* lines 114-118
WrapLeftOnly(p) ==
    IF p.x < -PX(playerWidth) THEN [p EXCEPT !.x = PX(canvasWidth)] ELSE p
Wrap(p) ==
    IF p.x < -PX(playerWidth) THEN [p EXCEPT !.x = PX(canvasWidth)]
    ELSE IF p.x > PX(canvasWidth) THEN [p EXCEPT !.x = -PX(playerWidth)]
    ELSE p

\* lines 120-121
GravityMoveFirst(p) ==
    LET vy == p.velocityY + gravityNum * (YUnit \div gravityDen)
    IN [p EXCEPT !.velocityY = vy, !.y = p.y + p.velocityY]
Gravity(p) ==
    LET vy == p.velocityY + gravityNum * (YUnit \div gravityDen)
    IN [p EXCEPT !.velocityY = vy, !.y = p.y + vy]

\* lines 123 and 129: player.velocityY > 0
FallingOrRising(p) == p.velocityY # 0
Falling(p) == p.velocityY > 0

\* lines 125-128: the player's span overlaps the platform's and the player's
\* bottom edge is inside the platform's band
Overlaps(p, plat) ==
    /\ p.x + PX(playerWidth) > plat.x
    /\ p.x < plat.x + PX(platformWidth)
    /\ p.y + PY(playerHeight) > plat.y
    /\ p.y + PY(playerHeight) < plat.y + PY(platformHeight) + PY(bandFudge)

\* lines 125-129: the collision condition of one platform
Hits(p, plat) == Overlaps(p, plat) /\ Falling(p)

\* line 134
JumpScoreSigned(plat) == (plat.y - PY(canvasHeight)) \div PY(jumpScoreUnit)
JumpScore(plat) == Abs(plat.y - PY(canvasHeight)) \div PY(jumpScoreUnit)

\* lines 125-139: the body of the forEach callback, on [player, score]
CollideOneAlwaysScores(ps, plat) ==
    IF Hits(ps.player, plat)
    THEN [player |-> [ps.player EXCEPT !.velocityY = PY(jumpStrength)],
          score |-> JumpScore(plat)]
    ELSE ps
CollideOne(ps, plat) ==
    IF Hits(ps.player, plat)
    THEN [player |-> [ps.player EXCEPT !.velocityY = PY(jumpStrength)],
          score |-> IF JumpScore(plat) > ps.score THEN JumpScore(plat) ELSE ps.score]
    ELSE ps

RECURSIVE CollideFrom(_, _, _)
CollideFrom(ps, plats, i) ==
    IF i > Len(plats) THEN ps
    ELSE CollideFrom(CollideOne(ps, plats[i]), plats, i + 1)

\* lines 123-141
Collide(ps, plats) ==
    IF Falling(ps.player) THEN CollideFrom(ps, plats, 1) ELSE ps

\* line 143
ScrollsBelowHalf(p) ==
    /\ p.y < PY(canvasHeight) \div 2
    /\ p.velocityY < 0
Scrolls(p) ==
    /\ p.y < PY(canvasHeight) \div scrollZoneDen
    /\ p.velocityY < 0

\* lines 146-148
ShiftDown(plats, scrollSpeed) ==
    [i \in 1..Len(plats) |-> [plats[i] EXCEPT !.y = plats[i].y + scrollSpeed]]

\* line 150
OnScreenReversed(plat) == plat.y > PY(canvasHeight + offscreenMargin)
OnScreen(plat) == plat.y < PY(canvasHeight + offscreenMargin)

FilterOnScreen(plats) == SelectSeq(plats, OnScreen)

\* line 152: the while condition
NeedsMoreOffByOne(plats) == Len(plats) < platformCount - 1
NeedsMore(plats) == Len(plats) < platformCount

\* lines 152-161: the lists the while loop can end with; it reads the last
\* element, so it is only used on a list that is not empty or already full.
RECURSIVE ReplenishAboveFirst(_)
ReplenishAboveFirst(plats) ==
    IF ~NeedsMore(plats) THEN {plats}
    ELSE UNION { ReplenishAboveFirst(Append(plats, [x |-> PX(rx),
                                                   y |-> plats[1].y - PY(platformGap)]))
                 : rx \in RandomXs }
RECURSIVE Replenish(_)
Replenish(plats) ==
    IF ~NeedsMore(plats) THEN {plats}
    ELSE UNION { Replenish(Append(plats, [x |-> PX(rx),
                                          y |-> plats[Len(plats)].y - PY(platformGap)]))
                 : rx \in RandomXs }

\* line 153 of an empty array: lastPlatform is undefined, line 156 throws
ReplenishThrows(plats) == NeedsMore(plats) /\ Len(plats) = 0

\* lines 172-179
gameOver(w) ==
    IF GreaterThan(w.score, w.highScore)
    THEN [w EXCEPT !.gameRunning = FALSE, !.highScore = Number(w.score),
                   !.localStorage = ToText(w.score)]
    ELSE [w EXCEPT !.gameRunning = FALSE]

\* lines 167-169
TerminalCheckLate(w) ==
    IF w.player.y > PY(canvasHeight + offscreenMargin) THEN gameOver(w) ELSE w
TerminalCheck(w) ==
    IF w.player.y > PY(canvasHeight) THEN gameOver(w) ELSE w

\* lines 143-165 on the world after collision; a set of outcomes
CameraScroll(w) ==
    IF ~Scrolls(w.player) THEN {w}
    ELSE LET scrollSpeed == -w.player.velocityY
             kept == FilterOnScreen(ShiftDown(w.platforms, scrollSpeed))
         IN IF ReplenishThrows(kept)
            THEN {[w EXCEPT !.platforms = kept, !.uncaught = TRUE]}
            ELSE {[w EXCEPT !.platforms = full,
                            !.score = w.score + scrollSpeed \div YUnit]
                  : full \in Replenish(kept)}

\* lines 102-170
updatePlayer(w, k) ==
    LET moved == Gravity(Wrap(HorizontalControl(w.player, k)))
        hit == Collide([player |-> moved, score |-> w.score], w.platforms)
        w1 == [w EXCEPT !.player = hit.player, !.score = hit.score]
    IN { IF w2.uncaught THEN w2 ELSE TerminalCheck(w2) : w2 \in CameraScroll(w1) }

\* the state a call of updatePlayer starts from, kept as history
Snapshot(w, k, op, over) ==
    [op |-> op, over |-> over, player |-> w.player, platforms |-> w.platforms,
     score |-> w.score, highScore |-> w.highScore, keys |-> k]

\* the tick stays within the model's bounds: the damped velocity is a whole
\* number of units
InBounds(w, k) ==
    (~k.left /\ ~k.right) => (w.player.velocityX * dampingNum) % dampingDen = 0

\* lines 202-211; an uncaught exception leaves before line 210
gameLoopUnguarded(w, k, op, over) ==
    IF w.uncaught THEN {w}
    ELSE IF ~InBounds(w, k) THEN {}
    ELSE { IF w2.uncaught THEN w2 ELSE [w2 EXCEPT !.pending = w2.pending + 1]
           : w2 \in updatePlayer([w EXCEPT !.last = Snapshot(w, k, op, over)], k) }
gameLoop(w, k, op, over) ==
    IF ~w.gameRunning \/ w.uncaught THEN {w}
    ELSE IF ~InBounds(w, k) THEN {}
    ELSE { IF w2.uncaught THEN w2 ELSE [w2 EXCEPT !.pending = w2.pending + 1]
           : w2 \in updatePlayer([w EXCEPT !.last = Snapshot(w, k, op, over)], k) }

\* one animation frame: every callback registered for it runs, in order
RECURSIVE RunCallbacks(_, _, _)
RunCallbacks(ws, k, n) ==
    IF n = 0 THEN ws
    ELSE RunCallbacks(UNION { gameLoop(w, k, "frame", FALSE) : w \in ws }, k, n - 1)

World ==
    [player |-> player, platforms |-> platforms, score |-> score,
     highScore |-> highScore, localStorage |-> localStorage,
     gameRunning |-> gameRunning, pending |-> pending, uncaught |-> uncaught,
     last |-> last]

Becomes(w) ==
    /\ player' = w.player
    /\ platforms' = w.platforms
    /\ score' = w.score
    /\ highScore' = w.highScore
    /\ localStorage' = w.localStorage
    /\ gameRunning' = w.gameRunning
    /\ pending' = w.pending
    /\ uncaught' = w.uncaught
    /\ last' = w.last

\* lines 14-28, 35, 40-43, 272-273: the state once the script has run
Loaded ==
    UNION { gameLoop([player |-> startPlayer, platforms |-> ladder, score |-> 0,
                      highScore |-> IF item = NoItem THEN Number(0) ELSE item,
                      localStorage |-> item, gameRunning |-> TRUE, pending |-> 0,
                      uncaught |-> FALSE,
                      last |-> Snapshot([player |-> startPlayer, platforms |-> ladder,
                                        score |-> 0, highScore |-> item],
                                       [left |-> FALSE, right |-> FALSE], "load", FALSE)],
                     [left |-> FALSE, right |-> FALSE], "load", FALSE)
            : <<ladder, item>> \in initPlatforms \X StoredItems }

Init ==
    /\ \E w \in Loaded :
          /\ player = w.player
          /\ platforms = w.platforms
          /\ score = w.score
          /\ highScore = w.highScore
          /\ localStorage = w.localStorage
          /\ gameRunning = w.gameRunning
          /\ pending = w.pending
          /\ uncaught = w.uncaught
          /\ last = w.last
    /\ keys = [left |-> FALSE, right |-> FALSE]
    /\ frames = 0
    /\ inputEvents = 0

\* the browser runs the callbacks registered for this frame
FrameStep ==
    /\ pending > 0
    /\ frames' = frames + 1
    /\ \E w \in RunCallbacks({[World EXCEPT !.pending = 0]}, keys, pending) : Becomes(w)
    /\ UNCHANGED <<keys, inputEvents>>

Frame ==
    /\ frames < MaxFrames
    /\ FrameStep

\* lines 213-226
resetGame ==
    /\ \E ladder \in initPlatforms :
         \E w \in gameLoop([World EXCEPT !.gameRunning = TRUE, !.score = 0,
                                         !.player = startPlayer,
                                         !.platforms = ladder],
                           keys, "resetGame", ~gameRunning) : Becomes(w)
    /\ UNCHANGED <<keys, inputEvents, frames>>

\* line 270: a click on the restart button, which the end screen shown by
\* gameOver (line 182) offers and resetGame hides again (line 224)
RestartClick ==
    /\ ~gameRunning
    /\ resetGame

\* lines 228-268: keydown / mousedown / touchstart and keyup / mouseup / touchend
Press(side) ==
    /\ inputEvents < MaxInputEvents
    /\ ~keys[side]
    /\ keys' = [keys EXCEPT ![side] = TRUE]
    /\ inputEvents' = inputEvents + 1
    /\ UNCHANGED <<player, platforms, score, highScore, localStorage, gameRunning,
                   pending, uncaught, last, frames>>

Release(side) ==
    /\ inputEvents < MaxInputEvents
    /\ keys[side]
    /\ keys' = [keys EXCEPT ![side] = FALSE]
    /\ inputEvents' = inputEvents + 1
    /\ UNCHANGED <<player, platforms, score, highScore, localStorage, gameRunning,
                   pending, uncaught, last, frames>>

PressLeft == Press("left")
PressRight == Press("right")
ReleaseLeft == Release("left")
ReleaseRight == Release("right")

Next ==
    \/ Frame
    \/ RestartClick
    \/ PressLeft
    \/ PressRight
    \/ ReleaseLeft
    \/ ReleaseRight

Spec == Init /\ [][Next]_vars

\* ------------------------------------------------------------- first visit
\* The same program on a first visit: nothing is stored under
\* 'skyJumpHighScore' when the script loads.
InitFresh ==
    /\ Init
    /\ localStorage = NoItem

SpecFresh == InitFresh /\ [][Next]_vars

\* ------------------------------------------------------------- long climbs
\* A first visit followed over a long climb, with one key press as the only
\* input.

LongFrame ==
    /\ frames < MaxLongFrames
    /\ FrameStep

LongPressLeft ==
    /\ inputEvents < MaxLongInputs
    /\ Press("left")

LongPressRight ==
    /\ inputEvents < MaxLongInputs
    /\ Press("right")

NextLong ==
    \/ LongFrame
    \/ LongPressLeft
    \/ LongPressRight

SpecLong == InitFresh /\ [][NextLong]_vars

\* ------------------------------------------------------------------ history
\* The player after lines 103-121 of the last updatePlayer call.
Moved == Gravity(Wrap(HorizontalControl(last.player, last.keys)))

\* The player after lines 103-112 of the last updatePlayer call, before the wrap.
Steered == HorizontalControl(last.player, last.keys)

\* player.y and player.velocityY are not written after line 131, so line 143
\* held in the last updatePlayer call exactly when it holds of the player now.
ScrolledLastTick == Scrolls(player)

\* The platforms that passed the filter of line 150 in the last call, if it scrolled.
Kept == FilterOnScreen(ShiftDown(last.platforms, -player.velocityY))

\* ------------------------------------------------------------------- claims

\* C1: in every reachable state at most one gameLoop callback is pending
\* with requestAnimationFrame, so updatePlayer runs at most once per frame.
AtMostOnePendingCallback == pending <= 1

\* C2: the game is RUNNING exactly while the last tick left player.y <=
\* canvasHeight; a step leaves RUNNING only as a frame whose tick ends with
\* player.y > canvasHeight, every tick that ends so leaves RUNNING, and a
\* step leaves GAME_OVER only as resetGame.
TwoStateMachine ==
    /\ [](gameRunning \in BOOLEAN /\ (gameRunning <=> player.y <= PY(canvasHeight)))
    /\ [][ /\ (gameRunning /\ ~gameRunning') =>
                (Frame /\ last' # last /\ player'.y > PY(600))
           /\ (last' # last /\ player'.y > PY(600)) => ~gameRunning'
           /\ (~gameRunning /\ gameRunning') => resetGame ]_vars

\* C2 witness: a reset has taken a finished game back to RUNNING.
RestartedAfterGameOver ==
    /\ gameRunning
    /\ last.op = "resetGame"
    /\ last.over

\* C3: score never decreases from one step to the next, except that
\* resetGame sets it back to 0.
ScoreMonotoneWithinRun ==
    [][score' < score => (resetGame /\ score' = 0)]_vars

\* C3 witness: the last tick bounced on a platform whose jump score is below
\* the score, and the score was kept.
BouncedBelowScore ==
    \E i \in 1..Len(last.platforms) :
        /\ Hits(Moved, last.platforms[i])
        /\ JumpScore(last.platforms[i]) < last.score
        /\ score >= last.score

\* C4 (as claimed): when a reset invoked in GAME_OVER has returned, score is
\* 0, the player is at (205, 450) with both velocities 0, the platform list
\* is a starting ladder and the game runs.
ResetLeavesPlayerAtStart ==
    [][(~gameRunning /\ resetGame) =>
          /\ score' = 0
          /\ player' = [x |-> PX(205), y |-> PY(450), velocityX |-> 0, velocityY |-> 0]
          /\ platforms' \in initPlatforms
          /\ gameRunning']_vars

\* C4 (amended): when a reset invoked in GAME_OVER has returned, score is 0,
\* the game runs and the platform list is the starting ladder of 10
\* platforms (the first at x = 190, y = 550, platform i at y = 550 - 80 i);
\* the player is one tick past the start: y = 450.5, velocityY = 0.5,
\* velocityX = -7 with left held, 7 with right and not left held, else 0,
\* and x = 205 + velocityX.
ResetLeavesPlayerOneTickIn ==
    [][(~gameRunning /\ resetGame) =>
          /\ score' = 0
          /\ gameRunning'
          /\ Len(platforms') = 10
          /\ platforms'[1] = [x |-> PX(190), y |-> PY(550)]
          /\ \A i \in 1..9 : platforms'[i + 1].y = PY(550 - 80 * i)
          /\ player'.y = PY(450) + 1
          /\ player'.velocityY = 1
          /\ player'.velocityX = (IF keys.left THEN -PX(7)
                                  ELSE IF keys.right THEN PX(7) ELSE 0)
          /\ player'.x = PX(205) + player'.velocityX]_vars

\* C4 witness: resetGame, invoked in GAME_OVER with left held, has returned.
ResetReturnedWithLeftHeld ==
    /\ last.op = "resetGame"
    /\ last.over
    /\ last.keys.left
    /\ last.player = startPlayer
    /\ score = 0
    /\ player.x = PX(198)

\* C5 (its last clause): after every game over highScore >= the final score.
HighScoreCoversFinalScore ==
    ~gameRunning => (~IsNaN(highScore) /\ highScore.val >= score)

\* C6: the platform list has exactly 10 platforms at the end of every tick
\* and after every reset.
AlwaysTenPlatforms == Len(platforms) = 10

\* C6 witness: the last tick scrolled, the filter removed a platform and the
\* replenishment loop ran.
ReplenishedLastTick ==
    /\ ScrolledLastTick
    /\ Len(Kept) < Len(last.platforms)
    /\ Len(platforms) = 10

\* C7: no TypeError is raised by the replenishment loop: whenever a tick
\* scrolled, at least one platform passed the filter.
ReplenishNeverMeetsEmptyList ==
    /\ ~uncaught
    /\ ScrolledLastTick => Len(Kept) >= 1

\* C7 witness: the loop appended a platform platformGap above the last one
\* that passed the filter.
AppendedAboveLastKept ==
    /\ ScrolledLastTick
    /\ Len(Kept) = 9
    /\ platforms[10].y = Kept[9].y - PY(80)

\* C8: the player leaves a tick with velocityY = jumpStrength only if
\* velocityY > 0 held after gravity in that tick; when velocityY <= 0 held
\* after gravity, velocityY is left as it was and the score gets no jump score
\* (only the scroll score of line 163), whatever platform is overlapped.
BounceOnlyWhileFalling ==
    LET moved == Moved
    IN /\ player.velocityY = PY(-15) => moved.velocityY > 0
       /\ moved.velocityY <= 0 =>
             /\ player.velocityY = moved.velocityY
             /\ score = last.score
                        + (IF ScrolledLastTick THEN (-player.velocityY) \div YUnit ELSE 0)

\* C8 witness: in the last tick the ascending player overlapped a platform's
\* band and did not bounce.
PassedThroughWhileAscending ==
    \E i \in 1..Len(last.platforms) :
        /\ Overlaps(Moved, last.platforms[i])
        /\ Moved.velocityY < 0
        /\ player.velocityY = Moved.velocityY
        /\ score = last.score

\* C9 (as claimed): a tick in which the falling player overlaps a platform's
\* band ends with velocityY = -15 and score = max(previous score, jumpScore).
BounceSetsScoreToJumpScore ==
    \A i \in 1..Len(last.platforms) :
        (Overlaps(Moved, last.platforms[i]) /\ Moved.velocityY > 0) =>
            /\ player.velocityY = PY(-15)
            /\ score = Max(last.score,
                           Abs(last.platforms[i].y - PY(600)) \div PY(10))

\* C9 (amended): such a tick ends with velocityY = -15 and score =
\* max(previous score, jumpScore), plus 15 when the bouncing player is above
\* canvasHeight / 3 (player.y < 200), where the scroll of the same tick adds
\* floor(15).
BounceSetsScoreThenScrollAdds ==
    LET moved == Moved
    IN \A i \in 1..Len(last.platforms) :
          (moved.velocityY > 0 /\ Overlaps(moved, last.platforms[i])) =>
              /\ player.velocityY = PY(-15)
              /\ score = Max(last.score,
                             Abs(last.platforms[i].y - PY(600)) \div PY(10))
                         + (IF player.y < PY(200) THEN 15 ELSE 0)

\* C9 witness: the last tick bounced above canvasHeight / 3 and scrolled.
BouncedInScrollZone ==
    /\ player.velocityY = PY(-15)
    /\ player.y < PY(200)
    /\ Moved.velocityY > 0
    /\ score >= last.score + 15

\* C10: at the end of every tick player.x is in [-50, 460]; a player moved
\* to x + 50 < 0 is placed at x = 460 and a player moved to x > 460 at x = -50.
WrapKeepsPlayerInRange ==
    /\ player.x >= PX(-50)
    /\ player.x <= PX(460)
    /\ Steered.x + PX(50) < 0 => player.x = PX(460)
    /\ Steered.x > PX(460) => player.x = PX(-50)

\* C10 witness: the last tick wrapped the player from the right edge to the left.
WrappedToLeftEdge ==
    /\ Steered.x > PX(460)
    /\ player.x = PX(-50)

\* C11: in every reachable state |player.velocityX| <= maxVelocityX (8).
HorizontalSpeedWithinMax ==
    /\ player.velocityX <= PX(8)
    /\ player.velocityX >= PX(-8)

\* C11 witness: the last tick ran with left held and the player moves left
\* at moveSpeed.
MovingLeftAtMoveSpeed ==
    /\ last.keys.left
    /\ player.velocityX = PX(-7)

\* C12: while the persisted value is missing or is not the text of a number,
\* highScore is the number 0 (the first improving game over stores a number).
MissingOrCorruptReadsAsZero ==
    localStorage.kind # "numeric string" => highScore = Number(0)

\* C13: in a run in which no key was held so far (velocityX is still 0) and
\* the score is still 0, every tick leaves the game RUNNING and either leaves
\* the player's bottom edge at or above the base platform's top (y = 550) with
\* score 0, or bounces on the base platform (velocityY = -15, score = 5).
FirstFallEndsOnBasePlatform ==
    (last.score = 0 /\ last.player.velocityX = 0
        /\ ~last.keys.left /\ ~last.keys.right) =>
        /\ gameRunning
        /\ \/ /\ score = 0
              /\ player.velocityY > 0
              /\ player.y + PY(50) <= PY(550)
           \/ /\ score = 5
              /\ player.velocityY = PY(-15)
              /\ last.platforms[1] = [x |-> PX(190), y |-> PY(550)]
              /\ player.x + PX(50) > PX(190)
              /\ player.x < PX(190 + 80)
              /\ player.y + PY(50) > PY(550)
              /\ player.y + PY(50) < PY(550 + 30)

\* C13 witness: after a reset, the first fall of a run without input has
\* ended in the bounce on the base platform.
FirstBounceAfterReset ==
    /\ last.score = 0
    /\ last.player.velocityX = 0
    /\ ~last.keys.left /\ ~last.keys.right
    /\ player.velocityY = PY(-15)
    /\ score = 5
    /\ localStorage = NoItem
    /\ frames > 2 * 14

\* C14: a tick scrolls exactly when, after gravity and collision handling,
\* player.y < 200 and velocityY < 0. In such a tick every platform that stays
\* below y = 650 after the shift is kept, in order, with y increased by
\* -velocityY, and score is the score after collision handling plus
\* floor(-velocityY); in every other tick the platform list is unchanged and
\* score is the score after collision handling.
ScrollExactlyInScrollZone ==
    LET afterJump == IF player.velocityY = PY(-15)
                     THEN Collide([player |-> Moved, score |-> last.score],
                                  last.platforms).score
                     ELSE last.score
        survivors == SelectSeq(last.platforms,
                               LAMBDA plat : plat.y - player.velocityY < PY(650))
    IN IF player.y < PY(200) /\ player.velocityY < 0
       THEN /\ Len(platforms) >= Len(survivors)
            /\ \A i \in 1..Len(survivors) :
                  platforms[i] = [x |-> survivors[i].x,
                                  y |-> survivors[i].y - player.velocityY]
            /\ score = afterJump + (-player.velocityY) \div YUnit
       ELSE /\ platforms = last.platforms
            /\ score = afterJump

\* C14 witness: the last tick scrolled while the player was ascending with a
\* fractional speed, moved the lowest platform down and added the floor of
\* the speed to the score.
ScrolledByFractionalSpeed ==
    /\ player.y < PY(200)
    /\ player.velocityY < 0
    /\ player.velocityY % YUnit # 0
    /\ platforms[1].y = last.platforms[1].y - player.velocityY
    /\ score = last.score + (-player.velocityY) \div YUnit
    /\ score > last.score

\* C15: no tunneling: a falling player whose horizontal span overlaps a
\* platform never moves in one tick from bottom edge <= platform.y to bottom
\* edge >= platform.y + 30 without bouncing.
NoTunneling ==
    \A i \in 1..Len(last.platforms) :
        LET plat == last.platforms[i]
        IN (/\ Moved.velocityY > 0
            /\ Moved.x + PX(50) > plat.x
            /\ Moved.x < plat.x + PX(80)
            /\ last.player.y + PY(50) <= plat.y
            /\ Moved.y + PY(50) >= plat.y + PY(30))
           => player.velocityY = PY(-15)

\* C16: a tick in which the player bounces never signals game over: the game
\* is over only after a tick that ended with the player still falling
\* (velocityY > 0) below the canvas bottom (player.y > 600).
GameOverOnlyWhileFalling ==
    ~gameRunning =>
        /\ player.velocityY > 0
        /\ player.y > PY(600)

\* C17: at most one platform bounces the player in any tick: no two platforms
\* of the list satisfy the collision condition for the player as moved by the
\* tick.
AtMostOnePlatformHit ==
    LET moved == Moved
        InBand == { i \in 1..Len(last.platforms) :
                      /\ moved.x + PX(50) > last.platforms[i].x
                      /\ moved.x < last.platforms[i].x + PX(80)
                      /\ moved.y + PY(50) > last.platforms[i].y
                      /\ moved.y + PY(50) < last.platforms[i].y + PY(30) }
    IN moved.velocityY > 0 => \A i, j \in InBand : i = j

\* C17 witness: the last tick bounced the player on a platform that has a
\* lower platform before it and a higher one after it in the list.
BouncedOnMiddlePlatform ==
    \E i \in 2..(Len(last.platforms) - 1) :
        /\ Moved.velocityY > 0
        /\ Moved.y + PY(50) > last.platforms[i].y
        /\ Moved.y + PY(50) < last.platforms[i].y + PY(30)
        /\ Moved.x + PX(50) > last.platforms[i].x
        /\ Moved.x < last.platforms[i].x + PX(80)
        /\ player.velocityY = PY(-15)

\* C18: the platform list is ordered bottom to top with consecutive platforms
\* exactly 80 apart, the lowest platform has y < 650 and the last element is
\* the topmost platform.
LadderInvariant ==
    /\ Len(platforms) >= 1
    /\ \A i \in 1..(Len(platforms) - 1) : platforms[i + 1].y = platforms[i].y - PY(80)
    /\ platforms[1].y < PY(650)
    /\ \A i \in 1..Len(platforms) :
          /\ platforms[Len(platforms)].y <= platforms[i].y
          /\ platforms[1].y >= platforms[i].y

\* C18 witness: the last tick scrolled the lowest platform out of the list
\* and the new top platform sits 80 above the previous top one.
LowestPlatformReplacedOnTop ==
    /\ player.y < PY(200)
    /\ player.velocityY < 0
    /\ last.platforms[1].y - player.velocityY >= PY(650)
    /\ platforms[1].y = last.platforms[2].y - player.velocityY
    /\ platforms[10].y = last.platforms[10].y - player.velocityY - PY(80)

\* C19: while the game is GAME_OVER and until resetGame is invoked, no
\* simulation step runs: every frame callback and every input event that
\* leaves the game GAME_OVER leaves player position and velocity, the platform
\* list, score and highScore unchanged.
FrozenWhileGameOver ==
    [][(~gameRunning /\ ~gameRunning') =>
          UNCHANGED <<player, platforms, score, highScore, localStorage>>]_vars

\* C19 witness: the game is over, the frame callback registered by the last
\* tick has run and returned, and a key was pressed or released since.
CallbackRanAndKeyChangedAfterGameOver ==
    /\ ~gameRunning
    /\ pending = 0
    /\ keys # last.keys

====
